---- MODULE Spec2Model ----
(***************************************************************************)
(* Model of the standby queue bot (v2): the Redis store (redis_store.rs)   *)
(* and the queue engine QueueManager (queue.rs).                           *)
(*                                                                         *)
(* An Option<T> is modelled as a sequence of length at most one: None is   *)
(* <<>> and Some(x) is <<x>>.  A Redis list key that holds no element does *)
(* not exist, so an absent membership list is the empty sequence.          *)
(* A store call that fails (no connection) has no effect on the store.     *)
(***************************************************************************)
EXTENDS Integers, Sequences, FiniteSets, TLC

\* queue.rs: thresholds
QUEUE_ALMOST_FULL == 4
QUEUE_FULL == 5

\* bound of the model: the number of distinct user ids
NumUsers == 6
\* bound of the model: the width of a message id in bits (64 in the program)
Bits == 3
Modulus == 2 ^ Bits

Users == 1..NumUsers
\* ids of queue messages and of notification messages
MessageIds == {1, 2}
NotificationIds == {3}
\* (guild_id, channel_id) pairs
Q1 == <<"g1", "c1">>
Q2 == <<"g2", "c1">>
Queues == {Q1, Q2}

None == <<>>
Some(x) == <<x>>

VARIABLES
    queue,                    \* key {guild}.{channel}.queue: ordered user ids
    message_id,               \* key {guild}.{channel}: Option<i64>
    notification_message_id,  \* key {guild}.{channel}.notification: Option<i64>
    last_action,              \* QueueManager.last_action: Option<String>
    result,                   \* the last engine call and what it returned
    call,                     \* history: the arguments of the last engine call
    closed_binding,           \* history: the binding the last successful Close removed
    lock,                     \* Handler.queue_manager: the task that holds the Mutex
    proc,                     \* the tasks that run interaction_create: position and locals
    next_message,             \* the id the platform gives the next queue message
    store_failed,             \* history: some store call of some event has failed
    live_notifications,       \* the notification messages that are in the channel
    retract_failed,           \* history: some delete_message of a notification has failed
    join_order,               \* history: the members, in the order of their latest Join
    last_change,              \* history: of each queue, its last Join or Leave that succeeded
    key_call,                 \* the last key derivation: its arguments and the key
    key_prev                  \* the key derivation before the last

store_vars == <<queue, message_id, notification_message_id, last_action, result>>
key_vars == <<key_call, key_prev>>
history_vars == <<call, closed_binding, join_order, last_change, key_vars>>
handler_vars == <<lock, proc, next_message, store_failed>>
platform_vars == <<live_notifications, retract_failed>>
vars == <<store_vars, history_vars, handler_vars, platform_vars>>

----------------------------------------------------------------------------
\* RedisStore primitives, on the value stored under one key

\* LRANGE key 0 -1
get_users(list) == list

\* mutant: looks for the user among the first QUEUE_FULL entries only
contains_user_active_only(list, user_id) ==
    \E i \in 1..Len(list) : i <= QUEUE_FULL /\ list[i] = user_id

\* users.iter().any(|u| u == user_id)
contains_user(list, user_id) == \E i \in 1..Len(get_users(list)) : get_users(list)[i] = user_id

\* mutant: LPUSH in place of RPUSH
add_user_front(list, user_id) == <<user_id>> \o list

\* RPUSH key user_id
add_user(list, user_id) == Append(list, user_id)

\* mutant: LPOP in place of LREM
remove_user_head(list, user_id) == IF list = <<>> THEN list ELSE Tail(list)

\* LREM key 0 user_id: removes every occurrence
remove_user(list, user_id) == SelectSeq(list, LAMBDA x : x # user_id)

\* users_before.iter().position(|u| u == user_id), 0-based
position(list, user_id) ==
    IF \E i \in 1..Len(list) : list[i] = user_id
    THEN Some((CHOOSE i \in 1..Len(list) :
                  list[i] = user_id /\ \A j \in 1..(i - 1) : list[j] # user_id) - 1)
    ELSE None

----------------------------------------------------------------------------
\* QueueManager

\* mutant: cuts at QUEUE_ALMOST_FULL
split_queue_almost(all_users) ==
    IF Len(all_users) > QUEUE_FULL
    THEN <<SubSeq(all_users, 1, QUEUE_ALMOST_FULL),
           SubSeq(all_users, QUEUE_ALMOST_FULL + 1, Len(all_users))>>
    ELSE <<all_users, <<>>>>

split_queue(all_users) ==
    IF Len(all_users) > QUEUE_FULL
    THEN <<SubSeq(all_users, 1, QUEUE_FULL), SubSeq(all_users, QUEUE_FULL + 1, Len(all_users))>>
    ELSE <<all_users, <<>>>>

NoNotification == [kind |-> "None", users |-> <<>>]
OneMore == [kind |-> "OneMore", users |-> <<>>]
Ready(users) == [kind |-> "Ready", users |-> users]

Success(op, users, waitlist, notification, promoted_user) ==
    [op |-> op, kind |-> "Success", users |-> users, waitlist |-> waitlist,
     notification |-> notification, promoted_user |-> promoted_user]

\* AlreadyInQueue, NotInQueue, Error(_), and Ok / Err of the Result-returning calls
Plain(op, kind) ==
    [op |-> op, kind |-> kind, users |-> <<>>, waitlist |-> <<>>,
     notification |-> NoNotification, promoted_user |-> None]

\* mutant: OneMore one member early
join_notification_early(users) ==
    IF Len(users) = QUEUE_ALMOST_FULL - 1 THEN OneMore
    ELSE IF Len(users) = QUEUE_FULL THEN Ready(users)
    ELSE NoNotification

\* mutant: the match of leave_queue, which has no Ready arm
join_notification_as_leave(users) ==
    IF Len(users) = QUEUE_ALMOST_FULL THEN OneMore ELSE NoNotification

\* match users.len() { QUEUE_ALMOST_FULL => OneMore, QUEUE_FULL => Ready, _ => None }
join_notification(users) ==
    IF Len(users) = QUEUE_ALMOST_FULL THEN OneMore
    ELSE IF Len(users) = QUEUE_FULL THEN Ready(users)
    ELSE NoNotification

\* mutant: the annotation is set as soon as the user is added
join_queue_annotated(list, la, user_id, fail) ==
    IF fail = 1 THEN [queue |-> list, last_action |-> la, result |-> Plain("join", "Error")]
    ELSE IF contains_user(list, user_id)
    THEN [queue |-> list, last_action |-> la, result |-> Plain("join", "AlreadyInQueue")]
    ELSE IF fail = 2 THEN [queue |-> list, last_action |-> la, result |-> Plain("join", "Error")]
    ELSE LET added == add_user(list, user_id) IN
         IF fail = 3 THEN [queue |-> added, last_action |-> Some(<<user_id, "joined">>),
                           result |-> Plain("join", "Error")]
         ELSE LET all_users == get_users(added)
                  users == split_queue(all_users)[1]
                  waitlist == split_queue(all_users)[2]
              IN [queue |-> added,
                  last_action |-> Some(<<user_id, "joined">>),
                  result |-> Success("join", users, waitlist, join_notification(users), None)]

\* join_queue on the list `list`, with the annotation `la`; `fail` is the
\* number of the store call that fails (0: none; 1: contains_user,
\* 2: add_user, 3: get_users).  Gives the new list, annotation and result.
join_queue(list, la, user_id, fail) ==
    IF fail = 1 THEN [queue |-> list, last_action |-> la, result |-> Plain("join", "Error")]
    ELSE IF contains_user(list, user_id)
    THEN [queue |-> list, last_action |-> la, result |-> Plain("join", "AlreadyInQueue")]
    ELSE IF fail = 2 THEN [queue |-> list, last_action |-> la, result |-> Plain("join", "Error")]
    ELSE LET added == add_user(list, user_id) IN
         IF fail = 3 THEN [queue |-> added, last_action |-> la, result |-> Plain("join", "Error")]
         ELSE LET all_users == get_users(added)
                  users == split_queue(all_users)[1]
                  waitlist == split_queue(all_users)[2]
              IN [queue |-> added,
                  last_action |-> Some(<<user_id, "joined">>),
                  result |-> Success("join", users, waitlist, join_notification(users), None)]

\* mutant: the match of join_queue, which has a Ready arm
leave_notification_as_join(users) ==
    IF Len(users) = QUEUE_ALMOST_FULL THEN OneMore
    ELSE IF Len(users) = QUEUE_FULL THEN Ready(users)
    ELSE NoNotification

\* match users.len() { QUEUE_ALMOST_FULL => OneMore, _ => None }
leave_notification(users) ==
    IF Len(users) = QUEUE_ALMOST_FULL THEN OneMore ELSE NoNotification

\* mutant: pos <= QUEUE_FULL
promoted_inclusive(user_position, users, users_before) ==
    IF user_position = None THEN None
    ELSE IF /\ user_position[1] <= QUEUE_FULL
            /\ Len(users) = QUEUE_FULL
            /\ Len(users_before) > QUEUE_FULL
         THEN Some(users[QUEUE_FULL])
         ELSE None

\* user_position.and_then(|pos| if pos < QUEUE_FULL && users.len() == QUEUE_FULL
\*     && users_before.len() > QUEUE_FULL { users.get(QUEUE_FULL - 1).cloned() } else { None })
promoted(user_position, users, users_before) ==
    IF user_position = None THEN None
    ELSE IF /\ user_position[1] < QUEUE_FULL
            /\ Len(users) = QUEUE_FULL
            /\ Len(users_before) > QUEUE_FULL
         THEN (IF Len(users) >= QUEUE_FULL THEN Some(users[QUEUE_FULL]) ELSE None)
         ELSE None

\* mutant: the arms of join_queue's membership match (Ok(true) returns early)
leave_queue_swapped(list, la, user_id, fail) ==
    IF contains_user(list, user_id)
    THEN [queue |-> list, last_action |-> la, result |-> Plain("leave", "NotInQueue")]
    ELSE LET removed == remove_user(list, user_id)
             users == split_queue(removed)[1]
             waitlist == split_queue(removed)[2]
         IN [queue |-> removed,
             last_action |-> Some(<<user_id, "left">>),
             result |-> Success("leave", users, waitlist, leave_notification(users), None)]

\* mutant: the annotation of join_queue
leave_queue_joined(list, la, user_id, fail) ==
    IF fail = 1 THEN [queue |-> list, last_action |-> la, result |-> Plain("leave", "Error")]
    ELSE IF ~contains_user(list, user_id)
    THEN [queue |-> list, last_action |-> la, result |-> Plain("leave", "NotInQueue")]
    ELSE IF fail = 2 \/ fail = 3
    THEN [queue |-> list, last_action |-> la, result |-> Plain("leave", "Error")]
    ELSE LET users_before == get_users(list)
             user_position == position(users_before, user_id)
             removed == remove_user(list, user_id)
         IN
         IF fail = 4 THEN [queue |-> removed, last_action |-> la, result |-> Plain("leave", "Error")]
         ELSE LET all_users == get_users(removed)
                  users == split_queue(all_users)[1]
                  waitlist == split_queue(all_users)[2]
              IN [queue |-> removed,
                  last_action |-> Some(<<user_id, "joined">>),
                  result |-> Success("leave", users, waitlist, leave_notification(users),
                                     promoted(user_position, users, users_before))]

\* leave_queue on the list `list`, with the annotation `la`; `fail` is the
\* number of the store call that fails (0: none; 1: contains_user,
\* 2: get_users, 3: remove_user, 4: the second get_users).
leave_queue(list, la, user_id, fail) ==
    IF fail = 1 THEN [queue |-> list, last_action |-> la, result |-> Plain("leave", "Error")]
    ELSE IF ~contains_user(list, user_id)
    THEN [queue |-> list, last_action |-> la, result |-> Plain("leave", "NotInQueue")]
    ELSE IF fail = 2 \/ fail = 3
    THEN [queue |-> list, last_action |-> la, result |-> Plain("leave", "Error")]
    ELSE LET users_before == get_users(list)
             user_position == position(users_before, user_id)
             removed == remove_user(list, user_id)
         IN
         IF fail = 4 THEN [queue |-> removed, last_action |-> la, result |-> Plain("leave", "Error")]
         ELSE LET all_users == get_users(removed)
                  users == split_queue(all_users)[1]
                  waitlist == split_queue(all_users)[2]
              IN [queue |-> removed,
                  last_action |-> Some(<<user_id, "left">>),
                  result |-> Success("leave", users, waitlist, leave_notification(users),
                                     promoted(user_position, users, users_before))]

\* get_last_action: self.last_action.clone()
get_last_action(la) == la

\* mutant: a conversion that saturates at i64::MAX
as_i64_saturating(x) == IF x >= Modulus \div 2 THEN (Modulus \div 2) - 1 ELSE x

\* message_id as i64, of a u64
as_i64(x) == IF x >= Modulus \div 2 THEN x - Modulus ELSE x

\* stored_id as u64, of an i64
as_u64(x) == IF x < 0 THEN x + Modulus ELSE x

\* RedisStore::get_message_id: GET {guild}.{channel}
get_message_id(stored, fail) ==
    IF fail = 1 THEN [ok |-> FALSE, value |-> None] ELSE [ok |-> TRUE, value |-> stored]

\* mutant: the match arm without its guard
is_active_queue_any(stored, message, fail) ==
    get_message_id(stored, fail).ok /\ get_message_id(stored, fail).value # None

\* mutant: active unless bound to another message
is_active_queue_lenient(stored, message, fail) ==
    ~(/\ get_message_id(stored, fail).ok
      /\ get_message_id(stored, fail).value # None
      /\ as_u64(get_message_id(stored, fail).value[1]) # message)

\* matches!(get_message_id(..), Ok(Some(stored_id)) if stored_id as u64 == message_id)
is_active_queue(stored, message, fail) ==
    /\ get_message_id(stored, fail).ok
    /\ get_message_id(stored, fail).value # None
    /\ as_u64(get_message_id(stored, fail).value[1]) = message

\* mutant: EXISTS on the key of the membership list
queue_exists_members(stored, list, fail) ==
    IF fail = 1 THEN "Err" ELSE IF list # <<>> THEN "true" ELSE "false"

\* queue_exists: EXISTS {guild}.{channel}; the membership list is not looked at
queue_exists(stored, list, fail) ==
    IF fail = 1 THEN "Err" ELSE IF stored # None THEN "true" ELSE "false"

\* mutant: SET .. NX, a binding that is there is kept
create_queue_once(stored, message, fail) ==
    IF fail = 1 THEN [message_id |-> stored, result |-> Plain("create", "Err")]
    ELSE [message_id |-> IF stored # None THEN stored ELSE Some(message),
          result |-> Plain("create", "Ok")]

\* create_queue: SET {guild}.{channel} message_id
create_queue(stored, message, fail) ==
    IF fail = 1 THEN [message_id |-> stored, result |-> Plain("create", "Err")]
    ELSE [message_id |-> Some(message), result |-> Plain("create", "Ok")]

\* mutant: one DEL for each key, the second of which fails
close_queue_sequential(list, stored, notification, fail) ==
    IF fail = 1
    THEN [queue |-> list, message_id |-> None, notification_message_id |-> notification,
          result |-> Plain("close", "Err")]
    ELSE [queue |-> <<>>, message_id |-> None, notification_message_id |-> None,
          result |-> Plain("close", "Ok")]

\* mutant: a DEL that removed no key is an error
close_queue_strict(list, stored, notification, fail) ==
    IF fail = 1 \/ (list = <<>> /\ stored = None /\ notification = None)
    THEN [queue |-> list, message_id |-> stored, notification_message_id |-> notification,
          result |-> Plain("close", "Err")]
    ELSE [queue |-> <<>>, message_id |-> None, notification_message_id |-> None,
          result |-> Plain("close", "Ok")]

\* mutant: a DEL of the message key alone
close_queue_binding_only(list, stored, notification, fail) ==
    IF fail = 1
    THEN [queue |-> list, message_id |-> stored, notification_message_id |-> notification,
          result |-> Plain("close", "Err")]
    ELSE [queue |-> list, message_id |-> None, notification_message_id |-> notification,
          result |-> Plain("close", "Ok")]

\* close_queue: one DEL of the three keys of the queue
close_queue(list, stored, notification, fail) ==
    IF fail = 1
    THEN [queue |-> list, message_id |-> stored, notification_message_id |-> notification,
          result |-> Plain("close", "Err")]
    ELSE [queue |-> <<>>, message_id |-> None, notification_message_id |-> None,
          result |-> Plain("close", "Ok")]

\* RedisStore::set_notification_message_id: SET {guild}.{channel}.notification message_id
set_notification_message_id(notification, message, fail) ==
    IF fail = 1 THEN notification ELSE Some(message)

\* RedisStore::delete_notification_message_id: DEL {guild}.{channel}.notification
delete_notification_message_id(notification, fail) ==
    IF fail = 1 THEN notification ELSE None

----------------------------------------------------------------------------
\* the tasks that handle events at the same time
Procs == {"p1", "p2"}

\* a task that handles no event
Idle ==
    [pc |-> "idle", kind |-> "none", user |-> 0, message |-> 0, before |-> <<>>,
     read |-> <<>>, outcome |-> "none", bind |-> "none", cleanup |-> "none",
     failed |-> FALSE, exists |-> "none", at_lock |-> None]

NoCall ==
    [op |-> "new", prev |-> "new", prev_kind |-> "Ok", q |-> Q1, user |-> 0, message |-> 0,
     fail |-> 0]

Init ==
    /\ queue = [q \in Queues |-> <<>>]
    /\ message_id = [q \in Queues |-> None]
    /\ notification_message_id = [q \in Queues |-> None]
    /\ last_action = None
    /\ result = Plain("new", "Ok")
    /\ call = NoCall
    /\ closed_binding = [q \in Queues |-> None]
    /\ lock = None
    /\ proc = [p \in Procs |-> Idle]
    /\ next_message = 1
    /\ store_failed = FALSE
    /\ live_notifications = {}
    /\ retract_failed = FALSE
    /\ join_order = <<>>
    /\ last_change = [q \in Queues |-> None]
    /\ key_call = None
    /\ key_prev = None

Join(q, user_id, fail) ==
    LET r == join_queue(queue[q], last_action, user_id, fail) IN
    /\ queue' = [queue EXCEPT ![q] = r.queue]
    /\ last_action' = r.last_action
    /\ result' = r.result
    /\ UNCHANGED <<message_id, notification_message_id>>

Leave(q, user_id, fail) ==
    LET r == leave_queue(queue[q], last_action, user_id, fail) IN
    /\ queue' = [queue EXCEPT ![q] = r.queue]
    /\ last_action' = r.last_action
    /\ result' = r.result
    /\ UNCHANGED <<message_id, notification_message_id>>

Create(q, message, fail) ==
    LET r == create_queue(message_id[q], message, fail) IN
    /\ message_id' = [message_id EXCEPT ![q] = r.message_id]
    /\ result' = r.result
    /\ UNCHANGED <<queue, notification_message_id, last_action>>

\* mutant: delete_queue deletes the records of every (guild, channel)
CloseEvery(q, fail) ==
    LET r == close_queue(queue[q], message_id[q], notification_message_id[q], fail) IN
    /\ queue' = [x \in Queues |-> IF fail = 0 THEN r.queue ELSE queue[x]]
    /\ message_id' = [x \in Queues |-> IF fail = 0 THEN r.message_id ELSE message_id[x]]
    /\ notification_message_id' =
           [x \in Queues |-> IF fail = 0 THEN r.notification_message_id
                             ELSE notification_message_id[x]]
    /\ result' = r.result
    /\ UNCHANGED last_action

Close(q, fail) ==
    LET r == close_queue(queue[q], message_id[q], notification_message_id[q], fail) IN
    /\ queue' = [queue EXCEPT ![q] = r.queue]
    /\ message_id' = [message_id EXCEPT ![q] = r.message_id]
    /\ notification_message_id' =
           [notification_message_id EXCEPT ![q] = r.notification_message_id]
    /\ result' = r.result
    /\ UNCHANGED last_action

SetNotification(q, message, fail) ==
    /\ notification_message_id' = [notification_message_id EXCEPT
           ![q] = set_notification_message_id(notification_message_id[q], message, fail)]
    /\ result' = Plain("set_notification", IF fail = 1 THEN "Err" ELSE "Ok")
    /\ UNCHANGED <<queue, message_id, last_action>>

DeleteNotification(q, fail) ==
    /\ notification_message_id' = [notification_message_id EXCEPT
           ![q] = delete_notification_message_id(notification_message_id[q], fail)]
    /\ result' = Plain("delete_notification", IF fail = 1 THEN "Err" ELSE "Ok")
    /\ UNCHANGED <<queue, message_id, last_action>>

\* The engine calls, one at a time, on one queue of a store that answers every
\* call; the queue message has one id and the notification message another.
Next ==
    \/ \E u \in Users : Join(Q1, u, 0) /\ UNCHANGED <<history_vars, handler_vars, platform_vars>>
    \/ \E u \in Users : Leave(Q1, u, 0) /\ UNCHANGED <<history_vars, handler_vars, platform_vars>>
    \/ Create(Q1, 1, 0) /\ UNCHANGED <<history_vars, handler_vars, platform_vars>>
    \/ Close(Q1, 0) /\ UNCHANGED <<history_vars, handler_vars, platform_vars>>
    \/ \E m \in NotificationIds : SetNotification(Q1, m, 0) /\ UNCHANGED <<history_vars, handler_vars, platform_vars>>

Spec == Init /\ [][Next]_vars

----------------------------------------------------------------------------
\* The engine calls, one at a time, on one queue of a store whose calls may
\* fail, with the two read-only calls and with the history of the calls.

\* u64 ids of queue messages: one below and one above the sign bit
StoreMessageIds == {1, Modulus - 1}
StoreUsers == {1, 2}

Called(op, q, user, message, fail) ==
    /\ call' = [op |-> op, prev |-> result.op, prev_kind |-> result.kind, q |-> q,
                user |-> user, message |-> message, fail |-> fail]
    /\ UNCHANGED <<join_order, last_change, key_vars, handler_vars, platform_vars>>

StoreJoin(q, u, f) ==
    Join(q, u, f) /\ Called("join", q, u, 0, f) /\ UNCHANGED closed_binding

StoreLeave(q, u, f) ==
    Leave(q, u, f) /\ Called("leave", q, u, 0, f) /\ UNCHANGED closed_binding

StoreCreate(q, m, f) ==
    Create(q, as_i64(m), f) /\ Called("create", q, 0, m, f) /\ UNCHANGED closed_binding

StoreClose(q, f) ==
    /\ Close(q, f)
    /\ Called("close", q, 0, 0, f)
    /\ closed_binding' =
           IF result'.kind = "Ok" /\ message_id[q] # None
           THEN [closed_binding EXCEPT ![q] = Some(as_u64(message_id[q][1]))]
           ELSE closed_binding

StoreSetNotification(q, m, f) ==
    SetNotification(q, m, f) /\ Called("set_notification", q, 0, m, f)
        /\ UNCHANGED closed_binding

\* is_active_queue(guild_id, channel_id, message_id)
IsActive(q, m, f) ==
    /\ result' = Plain("is_active_queue",
                       IF is_active_queue(message_id[q], m, f) THEN "true" ELSE "false")
    /\ Called("is_active_queue", q, 0, m, f)
    /\ UNCHANGED <<queue, message_id, notification_message_id, last_action, closed_binding>>

\* queue_exists(guild_id, channel_id)
Exists(q, f) ==
    /\ result' = Plain("queue_exists", queue_exists(message_id[q], queue[q], f))
    /\ Called("queue_exists", q, 0, 0, f)
    /\ UNCHANGED <<queue, message_id, notification_message_id, last_action, closed_binding>>

StoreNext ==
    \/ \E u \in StoreUsers, f \in 0..3 : StoreJoin(Q1, u, f)
    \/ \E u \in StoreUsers, f \in 0..4 : StoreLeave(Q1, u, f)
    \/ \E m \in StoreMessageIds, f \in 0..1 : StoreCreate(Q1, m, f)
    \/ \E f \in 0..1 : StoreClose(Q1, f)
    \/ \E m \in NotificationIds, f \in 0..1 : StoreSetNotification(Q1, m, f)
    \/ \E m \in StoreMessageIds, f \in 0..1 : IsActive(Q1, m, f)
    \/ \E f \in 0..1 : Exists(Q1, f)

SpecStore == Init /\ [][StoreNext]_vars

----------------------------------------------------------------------------
\* Vocabulary of the properties

Members(list) == {list[i] : i \in 1..Len(list)}

NoDuplicates(list) == \A i, j \in 1..Len(list) : i # j => list[i] # list[j]

IndexOf(list, user_id) == CHOOSE i \in 1..Len(list) : list[i] = user_id

Without(list, i) == SubSeq(list, 1, i - 1) \o SubSeq(list, i + 1, Len(list))

Partition(users, waitlist, list) ==
    /\ Len(users) <= QUEUE_FULL
    /\ (Len(waitlist) > 0 => Len(users) = QUEUE_FULL)
    /\ users \o waitlist = list

StoreUnchanged ==
    /\ queue' = queue
    /\ message_id' = message_id
    /\ notification_message_id' = notification_message_id

JoinSucceeded == result.op = "join" /\ result.kind = "Success"
LeaveSucceeded == result.op = "leave" /\ result.kind = "Success"

----------------------------------------------------------------------------
\* C1: after any sequence of Join, Leave, Create and Close calls made one at a
\* time, the stored membership list of every queue holds each user id at most once.
C1_NoDuplicates == \A q \in Queues : NoDuplicates(queue[q])

\* a Join was refused on a list that reaches into the waitlist
C1_Witness ==
    /\ result.op = "join" /\ result.kind = "AlreadyInQueue"
    /\ Len(queue[Q1]) > QUEUE_FULL

\* C2: a Join for a user who is already in the membership list returns
\* AlreadyInQueue and leaves the membership list, the active-message binding and
\* the pending-notification binding as they were.
C2_JoinAlreadyMember ==
    [][\A u \in Users :
          (result'.op = "join" /\ u \in Members(queue[Q1]) /\ Join(Q1, u, 0))
              => (result'.kind = "AlreadyInQueue" /\ StoreUnchanged)]_vars

C2_Witness ==
    /\ result.op = "join" /\ result.kind = "AlreadyInQueue"
    /\ message_id[Q1] # None
    /\ notification_message_id[Q1] # None

\* C3: for every stored membership list the split made by split_queue, and the
\* (active, waitlist) pair every successful Join or Leave returns, has at most 5
\* active members, a waitlist that is non-empty only when there are 5 active
\* members, and active followed by waitlist equal to the whole list in order.
C3_Partition ==
    /\ \A q \in Queues :
           Partition(split_queue(queue[q])[1], split_queue(queue[q])[2], queue[q])
    /\ result.kind = "Success" => Partition(result.users, result.waitlist, queue[Q1])

C3_Witness == result.kind = "Success" /\ Len(result.waitlist) > 0

\* C4: a successful Join that brings the list to exactly 4 members returns
\* OneMore; one that brings it to 1, 2 or 3 members returns no notification.
C4_JoinOneMore ==
    JoinSucceeded =>
        /\ Len(queue[Q1]) = 4 => result.notification = OneMore
        /\ Len(queue[Q1]) \in {1, 2, 3} => result.notification = NoNotification

C4_Witness == JoinSucceeded /\ Len(queue[Q1]) = 4 /\ result.notification.kind = "OneMore"

\* C5: a successful Join that brings the list to exactly 5 members returns Ready
\* with exactly 5 users, which are the returned active set, the 5 members in
\* join order.
C5_JoinReady ==
    (JoinSucceeded /\ Len(queue[Q1]) = 5) =>
        /\ result.notification.kind = "Ready"
        /\ Len(result.notification.users) = 5
        /\ result.notification.users = result.users
        /\ result.users = queue[Q1]

C5_Witness == JoinSucceeded /\ Len(queue[Q1]) = 5 /\ result.notification.kind = "Ready"

\* C6: a successful Join onto a queue that already has 5 or more members (the
\* joiner goes to the waitlist) returns no notification.
C6_NoNotificationOnWaitlistJoin ==
    (JoinSucceeded /\ Len(queue[Q1]) > QUEUE_FULL) => result.notification = NoNotification

C8_LeavePromotion ==
    [][\A u \in Users :
          (result'.op = "leave" /\ u \in Members(queue[Q1]) /\ Leave(Q1, u, 0))
              => (/\ result'.kind = "Success"
                  /\ IF IndexOf(queue[Q1], u) <= QUEUE_FULL /\ Len(queue[Q1]) > QUEUE_FULL
                     THEN /\ result'.promoted_user = Some(queue[Q1][QUEUE_FULL + 1])
                          /\ result'.users[QUEUE_FULL] = queue[Q1][QUEUE_FULL + 1]
                     ELSE result'.promoted_user = None)]_vars

C8_Witness == LeaveSucceeded /\ result.promoted_user # None

\* C9: a successful Leave(u) returns active followed by waitlist equal to the
\* list before the call with u taken out and every other member in the same
\* order, and that is the stored list afterwards.
C9_LeaveRemovesOnlyLeaver ==
    [][\A u \in Users :
          (result'.op = "leave" /\ u \in Members(queue[Q1]) /\ Leave(Q1, u, 0))
              => (/\ result'.kind = "Success"
                  /\ result'.users \o result'.waitlist =
                         Without(queue[Q1], IndexOf(queue[Q1], u))
                  /\ queue'[Q1] = Without(queue[Q1], IndexOf(queue[Q1], u)))]_vars

\* six members, the first of them left: five active, nobody waiting
C9_Witness ==
    /\ LeaveSucceeded
    /\ Len(result.users) = QUEUE_FULL
    /\ result.waitlist = <<>>
    /\ result.users = queue[Q1]

\* C10: a Leave for a user who is not in the membership list, also on a queue
\* that does not exist, returns NotInQueue and leaves the membership list and
\* both bindings as they were.
C10_LeaveNotMember ==
    [][\A u \in Users :
          (result'.op = "leave" /\ u \notin Members(queue[Q1]) /\ Leave(Q1, u, 0))
              => (result'.kind = "NotInQueue" /\ StoreUnchanged)]_vars

C10_Witness ==
    /\ result.op = "leave" /\ result.kind = "NotInQueue"
    /\ queue[Q1] # <<>>
    /\ message_id[Q1] # None
    /\ notification_message_id[Q1] # None

----------------------------------------------------------------------------
\* The event handlers (main.rs, handlers.rs): every task runs
\* interaction_create for one event, one store call at a step.  A store call
\* may fail; a call of the platform (Discord) may fail where its result is
\* looked at.  The events are on one queue.

HandlerUsers == {1, 2, 3, 4}
\* the ids the platform gives to queue messages, in this order
HandlerMessageIds == {1, 2}
\* the ids the platform gives to notification messages
HandlerNotificationIds == {3, 4}
Failures == {0, 1}

\* mutant: a Mutex for each task
can_lock_always(l) == TRUE

\* self.queue_manager.lock().await returns when no task holds the guard
can_lock(l) == l = None

\* mutant: the test of the waitlist negated
should_auto_close_waitlist(users, waitlist) == users = <<>> /\ waitlist # <<>>

\* users.is_empty() && waitlist.is_empty()
should_auto_close(users, waitlist) == users = <<>> /\ waitlist = <<>>

\* the users and the waitlist of the Success the engine call of task p returned
users_of(p) == split_queue(proc[p].read)[1]
waitlist_of(p) == split_queue(proc[p].read)[2]

\* the notification of that Success
notification_of(p) ==
    IF proc[p].kind = "leave" THEN leave_notification(users_of(p))
    ELSE join_notification(users_of(p))

Set(p, r, f) ==
    /\ proc' = [proc EXCEPT ![p] = [r EXCEPT !.failed = @ \/ (f = 1)]]
    /\ store_failed' = (store_failed \/ (f = 1))

At(p, pc) == proc[p].pc = pc

\* an event arrives: a task is spawned to run interaction_create for it
Arrive(p) ==
    /\ At(p, "idle")
    /\ proc' = [proc EXCEPT ![p] = [Idle EXCEPT !.pc = "waiting"]]
    /\ UNCHANGED <<store_vars, history_vars, platform_vars, lock, next_message, store_failed>>

\* the records of the queue and the annotation
StoreNow ==
    [queue |-> queue[Q1], message_id |-> message_id[Q1],
     notification_message_id |-> notification_message_id[Q1], last_action |-> last_action]

\* the event is one the handlers are to reject: a /standby for a queue that
\* exists, or a click on a message that is not the binding of the queue
MustReject(kind, m) ==
    \/ kind = "standby" /\ message_id[Q1] # None
    \/ kind \in {"join", "leave", "close"} /\ message_id[Q1] # Some(as_i64(m))

\* let mut queue_manager = self.queue_manager.lock().await, for the event of
\* task p: a slash command, or a click of `user` on a button of message m
Acquire(p, kind, user, m) ==
    /\ At(p, "waiting")
    /\ can_lock(lock)
    /\ kind \in {"standby", "open"} => m = 0
    /\ kind \in {"join", "leave", "close"} => (m \in HandlerMessageIds /\ m < next_message)
    /\ kind = "close" => user = 1
    /\ lock' = Some(p)
    /\ proc' = [proc EXCEPT ![p] =
                   [@ EXCEPT !.kind = kind, !.user = user, !.message = m,
                             !.before = IF kind = "leave" \/ kind = "close"
                                        THEN <<>> ELSE queue[Q1],
                             !.at_lock = IF MustReject(kind, m) \/ kind = "open"
                                         THEN Some(StoreNow) ELSE None,
                             !.pc = CASE kind = "standby" -> "standby_exists"
                                      [] kind = "open" -> "open_exists"
                                      [] OTHER -> "is_active"]]
    /\ UNCHANGED <<store_vars, history_vars, platform_vars, next_message, store_failed>>

\* the guard is dropped at the end of interaction_create
Release(p) ==
    /\ At(p, "release")
    /\ lock' = None
    /\ proc' = [proc EXCEPT ![p] = Idle]
    /\ UNCHANGED <<store_vars, history_vars, platform_vars, next_message, store_failed>>

\* if !queue_manager.is_active_queue(..) { return; }
IsActiveStep(p) ==
    /\ At(p, "is_active")
    /\ \E f \in Failures :
          Set(p, [proc[p] EXCEPT !.pc =
                     IF ~is_active_queue(message_id[Q1], proc[p].message, f) THEN "release"
                     ELSE CASE proc[p].kind = "join" -> "join_contains"
                            [] proc[p].kind = "leave" -> "leave_contains"
                            [] OTHER -> "close_get_message"], f)
    /\ UNCHANGED <<store_vars, history_vars, platform_vars, lock, next_message>>

\* handle_standby_command: if let Ok(true) = queue_exists(..) { return; }
StandbyExists(p) ==
    /\ At(p, "standby_exists")
    /\ \E f \in Failures :
          Set(p, [proc[p] EXCEPT
                     !.exists = queue_exists(message_id[Q1], queue[Q1], f),
                     !.pc = IF queue_exists(message_id[Q1], queue[Q1], f) = "true"
                            THEN "release" ELSE "join_contains"], f)
    /\ UNCHANGED <<store_vars, history_vars, platform_vars, lock, next_message>>

\* handle_open_queue: match queue_exists(..) { Ok(true) | Err(_) => return, _ => {} },
\* then send_message and create_queue(.., msg.id.get() as i64)
OpenExists(p) ==
    /\ At(p, "open_exists")
    /\ \E f \in Failures :
          Set(p, [proc[p] EXCEPT
                     !.exists = queue_exists(message_id[Q1], queue[Q1], f),
                     !.pc = IF queue_exists(message_id[Q1], queue[Q1], f) = "false"
                            THEN "open_create" ELSE "release"], f)
    /\ UNCHANGED <<store_vars, history_vars, platform_vars, lock, next_message>>

OpenCreate(p) ==
    /\ At(p, "open_create")
    /\ \/ \* send_message failed
          /\ Set(p, [proc[p] EXCEPT !.pc = "release", !.bind = "no_id"], 0)
          /\ UNCHANGED <<message_id, next_message>>
       \/ /\ next_message \in HandlerMessageIds
          /\ next_message' = next_message + 1
          /\ \E f \in Failures :
                /\ message_id' = [message_id EXCEPT ![Q1] =
                       create_queue(message_id[Q1], as_i64(next_message), f).message_id]
                /\ Set(p, [proc[p] EXCEPT
                              !.pc = IF f = 1 THEN "release" ELSE "join_contains",
                              !.bind = IF f = 1 THEN "create_err" ELSE "ok"], f)
    /\ UNCHANGED <<queue, notification_message_id, last_action, result, history_vars, platform_vars, lock>>

\* mutant: handle_standby_command goes on as handle_open_queue does
after_join_as_open(kind, outcome) ==
    CASE kind = "join" -> IF outcome = "Success" THEN "notification_get" ELSE "release"
      [] OTHER -> IF outcome = "Success" THEN "release" ELSE "cleanup_close"

\* mutant: a Join that returned Error is tried again
after_join_retry(kind, outcome) ==
    IF outcome = "Error" THEN "join_contains"
    ELSE CASE kind = "join" -> IF outcome = "Success" THEN "notification_get" ELSE "release"
           [] kind = "standby" -> IF outcome = "Success" THEN "standby_create" ELSE "release"
           [] OTHER -> IF outcome = "Success" THEN "release" ELSE "cleanup_close"

\* where the handler goes when join_queue has returned `outcome`
after_join(kind, outcome) ==
    CASE kind = "join" -> IF outcome = "Success" THEN "notification_get" ELSE "release"
      [] kind = "standby" -> IF outcome = "Success" THEN "standby_create" ELSE "release"
      [] OTHER -> IF outcome = "Success" THEN "release" ELSE "cleanup_close"

Returned(p, outcome) ==
    [proc[p] EXCEPT !.outcome = outcome, !.pc = after_join(proc[p].kind, outcome)]

\* join_queue: match self.store.contains_user(..)
JoinContains(p) ==
    /\ At(p, "join_contains")
    /\ \E f \in Failures :
          Set(p, IF f = 1 THEN Returned(p, "Error")
                 ELSE IF contains_user(queue[Q1], proc[p].user)
                      THEN Returned(p, "AlreadyInQueue")
                      ELSE [proc[p] EXCEPT !.pc = "join_add"], f)
    /\ UNCHANGED <<store_vars, history_vars, platform_vars, lock, next_message>>

\* join_queue: self.store.add_user(..)
JoinAdd(p) ==
    /\ At(p, "join_add")
    /\ \E f \in Failures :
          /\ queue' = [queue EXCEPT ![Q1] =
                          IF f = 1 THEN @ ELSE add_user(@, proc[p].user)]
          /\ Set(p, IF f = 1 THEN Returned(p, "Error")
                    ELSE [proc[p] EXCEPT !.pc = "join_get_users"], f)
    /\ UNCHANGED <<message_id, notification_message_id, last_action, result,
                   history_vars, platform_vars, lock, next_message>>

\* join_queue: self.store.get_users(..), split_queue, last_action, Success
JoinGetUsers(p) ==
    /\ At(p, "join_get_users")
    /\ \E f \in Failures :
          /\ last_action' =
                IF f = 1 THEN last_action ELSE Some(<<proc[p].user, "joined">>)
          /\ Set(p, IF f = 1 THEN Returned(p, "Error")
                    ELSE [Returned(p, "Success") EXCEPT !.read = get_users(queue[Q1])], f)
    /\ UNCHANGED <<queue, message_id, notification_message_id, result,
                   history_vars, platform_vars, lock, next_message>>

\* handle_standby_command: get_response, then create_queue(.., id as i64);
\* close_queue when either fails
StandbyCreate(p) ==
    /\ At(p, "standby_create")
    /\ \/ \* get_response failed
          /\ Set(p, [proc[p] EXCEPT !.pc = "cleanup_close", !.bind = "no_id"], 0)
          /\ UNCHANGED <<message_id, next_message>>
       \/ /\ next_message \in HandlerMessageIds
          /\ next_message' = next_message + 1
          /\ \E f \in Failures :
                /\ message_id' = [message_id EXCEPT ![Q1] =
                       create_queue(message_id[Q1], as_i64(next_message), f).message_id]
                /\ Set(p, [proc[p] EXCEPT
                              !.pc = IF f = 1 THEN "cleanup_close" ELSE "release",
                              !.bind = IF f = 1 THEN "create_err" ELSE "ok"], f)
    /\ UNCHANGED <<queue, notification_message_id, last_action, result, history_vars, platform_vars, lock>>

\* let _ = queue_manager.close_queue(..) of handle_standby_command and handle_open_queue
CleanupClose(p) ==
    /\ At(p, "cleanup_close")
    /\ \E f \in Failures :
          LET c == close_queue(queue[Q1], message_id[Q1], notification_message_id[Q1], f) IN
          /\ queue' = [queue EXCEPT ![Q1] = c.queue]
          /\ message_id' = [message_id EXCEPT ![Q1] = c.message_id]
          /\ notification_message_id' =
                [notification_message_id EXCEPT ![Q1] = c.notification_message_id]
          /\ Set(p, [proc[p] EXCEPT !.pc = "release", !.cleanup = c.result.kind], f)
    /\ UNCHANGED <<last_action, result, history_vars, platform_vars, lock, next_message>>

\* leave_queue: match self.store.contains_user(..)
LeaveContains(p) ==
    /\ At(p, "leave_contains")
    /\ \E f \in Failures :
          Set(p, IF f = 1 THEN [proc[p] EXCEPT !.outcome = "Error", !.pc = "release"]
                 ELSE IF ~contains_user(queue[Q1], proc[p].user)
                      THEN [proc[p] EXCEPT !.outcome = "NotInQueue", !.pc = "release"]
                      ELSE [proc[p] EXCEPT !.pc = "leave_users_before"], f)
    /\ UNCHANGED <<store_vars, history_vars, platform_vars, lock, next_message>>

\* leave_queue: users_before = self.store.get_users(..)
LeaveUsersBefore(p) ==
    /\ At(p, "leave_users_before")
    /\ \E f \in Failures :
          Set(p, IF f = 1 THEN [proc[p] EXCEPT !.outcome = "Error", !.pc = "release"]
                 ELSE [proc[p] EXCEPT !.pc = "leave_remove"], f)
    /\ UNCHANGED <<store_vars, history_vars, platform_vars, lock, next_message>>

\* leave_queue: self.store.remove_user(..)
LeaveRemove(p) ==
    /\ At(p, "leave_remove")
    /\ \E f \in Failures :
          /\ queue' = [queue EXCEPT ![Q1] =
                          IF f = 1 THEN @ ELSE remove_user(@, proc[p].user)]
          /\ Set(p, IF f = 1 THEN [proc[p] EXCEPT !.outcome = "Error", !.pc = "release"]
                    ELSE [proc[p] EXCEPT !.pc = "leave_get_users"], f)
    /\ UNCHANGED <<message_id, notification_message_id, last_action, result,
                   history_vars, platform_vars, lock, next_message>>

\* leave_queue: self.store.get_users(..), split_queue, last_action, Success
LeaveGetUsers(p) ==
    /\ At(p, "leave_get_users")
    /\ \E f \in Failures :
          /\ last_action' =
                IF f = 1 THEN last_action ELSE Some(<<proc[p].user, "left">>)
          /\ Set(p, IF f = 1 THEN [proc[p] EXCEPT !.outcome = "Error", !.pc = "release"]
                    ELSE [proc[p] EXCEPT !.outcome = "Success", !.pc = "notification_get",
                                         !.read = get_users(queue[Q1])], f)
    /\ UNCHANGED <<queue, message_id, notification_message_id, result,
                   history_vars, platform_vars, lock, next_message>>

\* delete_old_notification: if let Ok(Some(_)) = get_notification_message_id(..)
NotificationGet(p) ==
    /\ At(p, "notification_get")
    /\ \E f \in Failures :
          Set(p, [proc[p] EXCEPT !.pc =
                     IF f = 0 /\ notification_message_id[Q1] # None
                     THEN "notification_delete"
                     ELSE IF proc[p].kind = "close" THEN "close_close"
                     ELSE "update_message"], f)
    /\ UNCHANGED <<store_vars, history_vars, platform_vars, lock, next_message>>

\* delete_old_notification: let _ = delete_notification_message_id(..), after
\* the delete_message whose result is dropped
NotificationDelete(p) ==
    /\ At(p, "notification_delete")
    /\ \E f \in Failures :
          /\ notification_message_id' = [notification_message_id EXCEPT ![Q1] =
                delete_notification_message_id(@, f)]
          /\ Set(p, [proc[p] EXCEPT !.pc =
                        IF proc[p].kind = "close" THEN "close_close"
                        ELSE "update_message"], f)
    /\ UNCHANGED <<queue, message_id, last_action, result, history_vars, lock, next_message>>

\* delete_old_notification: let _ = delete_message(channel, notif_msg_id as u64)
delete_message ==
    \E deleted \in BOOLEAN :
        /\ live_notifications' =
              IF deleted
              THEN live_notifications \ {as_u64(notification_message_id[Q1][1])}
              ELSE live_notifications
        /\ retract_failed' = (retract_failed \/ ~deleted)

\* where handle_join_queue and handle_leave_queue go after update_queue_message
after_update(p) ==
    IF notification_of(p) # NoNotification THEN "notification_set"
    ELSE IF proc[p].kind = "leave" /\ should_auto_close(users_of(p), waitlist_of(p))
         THEN "leave_get_message"
         ELSE "release"

\* update_queue_message: get_message_id(..)?.ok_or_else(..)?, edit_message(..)?;
\* handle_join_queue returns on Err, handle_leave_queue goes on
UpdateMessage(p) ==
    /\ At(p, "update_message")
    /\ \E f \in Failures, edited \in BOOLEAN :
          LET ok == f = 0 /\ message_id[Q1] # None /\ edited IN
          Set(p, [proc[p] EXCEPT !.pc =
                     IF ~ok /\ proc[p].kind = "join" THEN "release" ELSE after_update(p)], f)
    /\ UNCHANGED <<store_vars, history_vars, platform_vars, lock, next_message>>

\* where handle_join_queue and handle_leave_queue go after the notification
after_notification(p) ==
    IF proc[p].kind = "leave" /\ should_auto_close(users_of(p), waitlist_of(p))
    THEN "leave_get_message" ELSE "release"

\* channel_id.say(notification): Err(e) => eprintln!(..)
SayFailed(p) ==
    /\ At(p, "notification_set")
    /\ Set(p, [proc[p] EXCEPT !.pc = after_notification(p)], 0)
    /\ UNCHANGED <<store_vars, history_vars, lock, next_message>>

\* channel_id.say(notification): Ok(msg) => let _ = set_notification_message_id(..),
\* msg.id is m
Said(p, m) ==
    /\ At(p, "notification_set")
    /\ \E f \in Failures :
          /\ notification_message_id' = [notification_message_id EXCEPT ![Q1] =
                set_notification_message_id(@, as_i64(m), f)]
          /\ Set(p, [proc[p] EXCEPT !.pc = after_notification(p)], f)
    /\ UNCHANGED <<queue, message_id, last_action, result, history_vars, lock, next_message>>

\* the notification of handle_join_queue and handle_leave_queue
NotificationSet(p) ==
    SayFailed(p) \/ \E m \in NotificationIds : Said(p, m)

\* handle_leave_queue: match get_message_id(..) { Ok(Some(id)) => id, _ => return }
LeaveGetMessage(p) ==
    /\ At(p, "leave_get_message")
    /\ \E f \in Failures :
          Set(p, [proc[p] EXCEPT !.pc =
                     IF f = 0 /\ message_id[Q1] # None THEN "leave_close" ELSE "release"], f)
    /\ UNCHANGED <<store_vars, history_vars, platform_vars, lock, next_message>>

\* handle_close_queue: match get_message_id(..) { Ok(Some(id)) => id, _ => return }
CloseGetMessage(p) ==
    /\ At(p, "close_get_message")
    /\ \E f \in Failures :
          Set(p, [proc[p] EXCEPT !.pc =
                     IF f = 0 /\ message_id[Q1] # None THEN "notification_get"
                     ELSE "release"], f)
    /\ UNCHANGED <<store_vars, history_vars, platform_vars, lock, next_message>>

\* close_queue(..) of handle_leave_queue (queue now empty) and of handle_close_queue
CloseStep(p) ==
    /\ At(p, "leave_close") \/ At(p, "close_close")
    /\ \E f \in Failures :
          LET c == close_queue(queue[Q1], message_id[Q1], notification_message_id[Q1], f) IN
          /\ queue' = [queue EXCEPT ![Q1] = c.queue]
          /\ message_id' = [message_id EXCEPT ![Q1] = c.message_id]
          /\ notification_message_id' =
                [notification_message_id EXCEPT ![Q1] = c.notification_message_id]
          /\ Set(p, [proc[p] EXCEPT !.pc = "release", !.outcome =
                        IF proc[p].kind = "close" THEN c.result.kind ELSE @], f)
    /\ UNCHANGED <<last_action, result, history_vars, platform_vars, lock, next_message>>

HandlerNext ==
    \/ \E p \in Procs : Arrive(p)
    \/ \E p \in Procs, kind \in {"standby", "open", "join", "leave", "close"},
          user \in HandlerUsers, m \in HandlerMessageIds \cup {0} : Acquire(p, kind, user, m)
    \/ \E p \in Procs : Release(p)
    \/ \E p \in Procs : IsActiveStep(p)
    \/ \E p \in Procs : StandbyExists(p)
    \/ \E p \in Procs : OpenExists(p)
    \/ \E p \in Procs : OpenCreate(p)
    \/ \E p \in Procs : JoinContains(p)
    \/ \E p \in Procs : JoinAdd(p)
    \/ \E p \in Procs : JoinGetUsers(p)
    \/ \E p \in Procs : StandbyCreate(p)
    \/ \E p \in Procs : CleanupClose(p)
    \/ \E p \in Procs : LeaveContains(p)
    \/ \E p \in Procs : LeaveUsersBefore(p)
    \/ \E p \in Procs : LeaveRemove(p)
    \/ \E p \in Procs : LeaveGetUsers(p)
    \/ \E p \in Procs : NotificationGet(p)
    \/ \E p \in Procs : NotificationDelete(p) /\ UNCHANGED platform_vars
    \/ \E p \in Procs : UpdateMessage(p)
    \/ \E p \in Procs : NotificationSet(p) /\ UNCHANGED platform_vars
    \/ \E p \in Procs : LeaveGetMessage(p)
    \/ \E p \in Procs : CloseGetMessage(p)
    \/ \E p \in Procs : CloseStep(p)

SpecHandlers == Init /\ [][HandlerNext]_vars

----------------------------------------------------------------------------
\* The handlers and the notification messages of the channel (SpecNotify):
\* the events of SpecHandlers, with the notification messages that are live
\* in the channel, up to the first call of the store or delete_message of a
\* notification that fails.

\* delete_old_notification with its delete_message
NotifyDelete(p) == NotificationDelete(p) /\ delete_message

\* say(notification) with the message it posts, whose id is new
NotifySet(p) ==
    \/ SayFailed(p) /\ UNCHANGED platform_vars
    \/ \E m \in HandlerNotificationIds \ live_notifications :
          /\ Said(p, m)
          /\ live_notifications' = live_notifications \cup {m}
          /\ UNCHANGED retract_failed

NoFailure == ~store_failed /\ ~retract_failed

NotifyNext ==
    /\ NoFailure
    /\ \/ \E p \in Procs : Arrive(p)
       \/ \E p \in Procs, kind \in {"standby", "open", "join", "leave", "close"},
             user \in HandlerUsers, m \in HandlerMessageIds \cup {0} : Acquire(p, kind, user, m)
       \/ \E p \in Procs : Release(p)
       \/ \E p \in Procs : IsActiveStep(p)
       \/ \E p \in Procs : StandbyExists(p)
       \/ \E p \in Procs : OpenExists(p)
       \/ \E p \in Procs : OpenCreate(p)
       \/ \E p \in Procs : JoinContains(p)
       \/ \E p \in Procs : JoinAdd(p)
       \/ \E p \in Procs : JoinGetUsers(p)
       \/ \E p \in Procs : StandbyCreate(p)
       \/ \E p \in Procs : CleanupClose(p)
       \/ \E p \in Procs : LeaveContains(p)
       \/ \E p \in Procs : LeaveUsersBefore(p)
       \/ \E p \in Procs : LeaveRemove(p)
       \/ \E p \in Procs : LeaveGetUsers(p)
       \/ \E p \in Procs : NotificationGet(p)
       \/ \E p \in Procs : NotifyDelete(p)
       \/ \E p \in Procs : UpdateMessage(p)
       \/ \E p \in Procs : NotifySet(p)
       \/ \E p \in Procs : LeaveGetMessage(p)
       \/ \E p \in Procs : CloseGetMessage(p)
       \/ \E p \in Procs : CloseStep(p)

SpecNotify == Init /\ [][NotifyNext]_vars

----------------------------------------------------------------------------
\* The handlers under fair scheduling (SpecLive): every call of the store
\* and of the platform returns, so a task that runs a handler takes its
\* next step, and the Mutex of tokio hands the lock to the waiting tasks in
\* the order they asked, so a task that waits gets the lock when it is free
\* often enough.  Events need not arrive.  The queue starts as the /standby
\* of user 1 and the joins of users 2 and 3 leave it, bound to message 1;
\* the events are those of users 1 and 4.

LiveUsers == {1, 4}

LiveInit ==
    /\ queue = [q \in Queues |-> IF q = Q1 THEN <<1, 2, 3>> ELSE <<>>]
    /\ message_id = [q \in Queues |-> IF q = Q1 THEN Some(1) ELSE None]
    /\ notification_message_id = [q \in Queues |-> None]
    /\ last_action = Some(<<3, "joined">>)
    /\ result = Plain("new", "Ok")
    /\ call = NoCall
    /\ closed_binding = [q \in Queues |-> None]
    /\ lock = None
    /\ proc = [p \in Procs |-> Idle]
    /\ next_message = 2
    /\ store_failed = FALSE
    /\ live_notifications = {}
    /\ retract_failed = FALSE
    /\ join_order = <<>>
    /\ last_change = [q \in Queues |-> None]
    /\ key_call = None
    /\ key_prev = None

\* the next step of the handler that task p runs
TaskStep(p) ==
    \/ Release(p)
    \/ IsActiveStep(p)
    \/ StandbyExists(p)
    \/ OpenExists(p)
    \/ OpenCreate(p)
    \/ JoinContains(p)
    \/ JoinAdd(p)
    \/ JoinGetUsers(p)
    \/ StandbyCreate(p)
    \/ CleanupClose(p)
    \/ LeaveContains(p)
    \/ LeaveUsersBefore(p)
    \/ LeaveRemove(p)
    \/ LeaveGetUsers(p)
    \/ NotificationGet(p)
    \/ NotificationDelete(p) /\ UNCHANGED platform_vars
    \/ UpdateMessage(p)
    \/ NotificationSet(p) /\ UNCHANGED platform_vars
    \/ LeaveGetMessage(p)
    \/ CloseGetMessage(p)
    \/ CloseStep(p)

\* task p gets the lock, for the event it was spawned for
LockStep(p) ==
    \E kind \in {"standby", "open", "join", "leave", "close"},
       user \in LiveUsers, m \in HandlerMessageIds \cup {0} : Acquire(p, kind, user, m)

LiveNext ==
    \/ \E p \in Procs : Arrive(p)
    \/ \E p \in Procs : LockStep(p)
    \/ \E p \in Procs : TaskStep(p)

SpecLive ==
    /\ LiveInit
    /\ [][LiveNext]_vars
    /\ \A p \in Procs : WF_vars(TaskStep(p)) /\ SF_vars(LockStep(p))

\* C29: no event blocks: a task that holds the lock releases it, whatever
\* its handler meets (a stale message, a rejection, a failed call), and a
\* task that waits for the lock gets it.
C29_NoBlocking ==
    \A p \in Procs :
        /\ (lock = Some(p)) ~> (lock # Some(p))
        /\ (proc[p].pc = "waiting") ~> (lock = Some(p))

\* a task waits while the other, whose store call has failed, holds the lock
C29_Witness ==
    \E p \in Procs, w \in Procs :
        /\ lock = Some(p) /\ proc[p].failed /\ proc[p].pc # "release"
        /\ proc[w].pc = "waiting"

----------------------------------------------------------------------------
\* The keys of the store (SpecKeys): the handlers derive guild_id and
\* channel_id from the ids of the platform with to_string(), and the store
\* derives the keys of the three records from the two strings.  A string
\* is the sequence of its characters.

\* ids of one, two and three digits
MaxId == 12
Ids == (1..3) \cup (10..MaxId) \cup {111}

Digits == <<"0", "1", "2", "3", "4", "5", "6", "7", "8", "9">>

\* u64::to_string: the decimal digits, most significant first
RECURSIVE to_string(_)
to_string(n) ==
    IF n < 10 THEN <<Digits[n + 1]>>
    ELSE to_string(n \div 10) \o <<Digits[(n % 10) + 1]>>

\* mutant: the two identifiers with no separator
message_key_joined(guild_id, channel_id) == guild_id \o channel_id

\* format!("{guild_id}.{channel_id}")
message_key(guild_id, channel_id) == guild_id \o <<".">> \o channel_id

\* format!("{guild_id}.{channel_id}.queue")
queue_key(guild_id, channel_id) ==
    guild_id \o <<".">> \o channel_id \o <<".", "q", "u", "e", "u", "e">>

\* format!("{guild_id}.{channel_id}.notification")
notification_key(guild_id, channel_id) ==
    guild_id \o <<".">> \o channel_id
        \o <<".", "n", "o", "t", "i", "f", "i", "c", "a", "t", "i", "o", "n">>

\* a key was derived for the record `kind` of (guild, channel)
Derived(kind, guild, channel, key) ==
    /\ key_prev' = key_call
    /\ key_call' = Some([kind |-> kind, guild |-> guild, channel |-> channel, key |-> key])
    /\ UNCHANGED <<store_vars, call, closed_binding, join_order, last_change, handler_vars,
                   platform_vars>>

MessageKey(guild, channel) ==
    Derived("binding", guild, channel, message_key(to_string(guild), to_string(channel)))

QueueKey(guild, channel) ==
    Derived("members", guild, channel, queue_key(to_string(guild), to_string(channel)))

NotificationKey(guild, channel) ==
    Derived("notification-binding", guild, channel,
            notification_key(to_string(guild), to_string(channel)))

KeysNext ==
    \/ \E guild \in Ids, channel \in Ids : MessageKey(guild, channel)
    \/ \E guild \in Ids, channel \in Ids : QueueKey(guild, channel)
    \/ \E guild \in Ids, channel \in Ids : NotificationKey(guild, channel)

SpecKeys == Init /\ [][KeysNext]_vars

\* the record and the pair a derivation was for
KeyOf(d) == <<d.kind, d.guild, d.channel>>

\* C24: the keys are free of collisions: two derivations for different
\* (guild, channel) pairs, or for different records of any pairs, give
\* different keys.
C24_KeysCollisionFree ==
    (key_call # None /\ key_prev # None /\ KeyOf(key_call[1]) # KeyOf(key_prev[1]))
        => key_call[1].key # key_prev[1].key

\* the binding keys of (1, 11) and of (11, 1), which have the same digits
C24_Witness ==
    /\ key_call # None /\ key_prev # None
    /\ KeyOf(key_call[1]) = <<"binding", 1, 11>>
    /\ KeyOf(key_prev[1]) = <<"binding", 11, 1>>
    /\ key_call[1].key = <<"1", ".", "1", "1">>
    /\ key_prev[1].key = <<"1", "1", ".", "1">>

----------------------------------------------------------------------------
\* The order of the members (SpecOrder): Join, Leave and Close on one queue
\* of a store whose calls may fail, with the history of the members in the
\* order of their latest Join.

\* one user more than the active set holds, so that one waits
OrderUsers == {1, 2, 3, 4, 5, 6}

Min(a, b) == IF a < b THEN a ELSE b

\* the members without `user_id`, then `user_id`: its Join is now the latest
joined_last(order, user_id) == SelectSeq(order, LAMBDA x : x # user_id) \o <<user_id>>

\* join_queue has stored the user: it was not a member and add_user was
\* reached and did not fail
OrderJoin(u, f) ==
    /\ Join(Q1, u, f)
    /\ join_order' =
          IF f \notin {1, 2} /\ u \notin Members(join_order)
          THEN joined_last(join_order, u) ELSE join_order
    /\ UNCHANGED <<call, closed_binding, last_change, key_vars, handler_vars, platform_vars>>

\* leave_queue has removed the user: remove_user was reached and did not fail
OrderLeave(u, f) ==
    /\ Leave(Q1, u, f)
    /\ join_order' =
          IF f \notin {1, 2, 3}
          THEN SelectSeq(join_order, LAMBDA x : x # u) ELSE join_order
    /\ UNCHANGED <<call, closed_binding, last_change, key_vars, handler_vars, platform_vars>>

OrderClose(f) ==
    /\ Close(Q1, f)
    /\ join_order' = IF f = 0 THEN <<>> ELSE join_order
    /\ UNCHANGED <<call, closed_binding, last_change, key_vars, handler_vars, platform_vars>>

OrderNext ==
    \/ \E u \in OrderUsers, f \in 0..3 : OrderJoin(u, f)
    \/ \E u \in OrderUsers, f \in 0..4 : OrderLeave(u, f)
    \/ \E f \in Failures : OrderClose(f)

SpecOrder == Init /\ [][OrderNext]_vars

\* C28: the list is the members in the order of their latest Joins, the
\* active set is the first QUEUE_FULL of them and the waitlist the rest in
\* the same order, in the store and in what a successful call returns.
C28_JoinOrder ==
    LET n == Min(Len(join_order), QUEUE_FULL)
        active == SubSeq(join_order, 1, n)
        waiting == SubSeq(join_order, n + 1, Len(join_order))
    IN /\ get_users(queue[Q1]) = join_order
       /\ split_queue(get_users(queue[Q1])) = <<active, waiting>>
       /\ result.kind = "Success" => result.users = active /\ result.waitlist = waiting
       /\ (result.kind = "Success" /\ result.promoted_user # None)
             => result.promoted_user = Some(active[QUEUE_FULL])

\* user 1 left, joined again behind the others and was promoted from the
\* waitlist when user 2 left
C28_Witness ==
    /\ queue[Q1] = <<3, 4, 5, 6, 1>>
    /\ result.op = "leave" /\ result.kind = "Success"
    /\ result.promoted_user = Some(1)

----------------------------------------------------------------------------
\* Two queues (SpecQueues): the engine calls, one at a time, on the queues
\* of two (guild, channel) pairs of one store whose calls may fail, by one
\* QueueManager, with the history of the last call and, of each queue, of
\* its last Join or Leave that succeeded.

QueuesUsers == {1, 2}
QueuesMessageIds == {1}

CalledOn(op, q, user, message) ==
    /\ call' = [NoCall EXCEPT !.op = op, !.q = q, !.user = user, !.message = message]
    /\ last_change' =
          IF op \in {"join", "leave"} /\ result'.kind = "Success"
          THEN [last_change EXCEPT ![q] =
                   Some(<<user, IF op = "join" THEN "joined" ELSE "left">>)]
          ELSE last_change
    /\ UNCHANGED <<closed_binding, join_order, key_vars, handler_vars, platform_vars>>

QueuesJoin(q, u, f) == Join(q, u, f) /\ CalledOn("join", q, u, 0)

QueuesLeave(q, u, f) == Leave(q, u, f) /\ CalledOn("leave", q, u, 0)

QueuesCreate(q, m, f) == Create(q, as_i64(m), f) /\ CalledOn("create", q, 0, m)

QueuesClose(q, f) == Close(q, f) /\ CalledOn("close", q, 0, 0)

QueuesSetNotification(q, m, f) ==
    SetNotification(q, m, f) /\ CalledOn("set_notification", q, 0, m)

QueuesNext ==
    \/ \E q \in Queues, u \in QueuesUsers, f \in 0..3 : QueuesJoin(q, u, f)
    \/ \E q \in Queues, u \in QueuesUsers, f \in 0..4 : QueuesLeave(q, u, f)
    \/ \E q \in Queues, m \in QueuesMessageIds, f \in 0..1 : QueuesCreate(q, m, f)
    \/ \E q \in Queues, f \in 0..1 : QueuesClose(q, f)
    \/ \E q \in Queues, m \in NotificationIds, f \in 0..1 : QueuesSetNotification(q, m, f)

SpecQueues == Init /\ [][QueuesNext]_vars

\* update_queue_message of queue q renders get_last_action(), which has no
\* guild_id and no channel_id
Rendered(q) == get_last_action(last_action)

C32_QueueIsolation ==
    [][
        \A q \in Queues :
            call'.q # q =>
                /\ queue'[q] = queue[q]
                /\ message_id'[q] = message_id[q]
                /\ notification_message_id'[q] = notification_message_id[q]
    ]_vars

\* Q1 was closed while Q2 has members, a binding and a notification binding
C32_Witness ==
    /\ call.op = "close" /\ call.q = Q1 /\ result.kind = "Ok"
    /\ queue[Q1] = <<>> /\ message_id[Q1] = None /\ notification_message_id[Q1] = None
    /\ queue[Q2] = <<1, 2>> /\ message_id[Q2] = Some(1)
    /\ notification_message_id[Q2] = Some(3)
    /\ closed_binding[Q1] = None

----------------------------------------------------------------------------
\* handle_bump_command (SpecBump): the handler as it runs when called with
\* the QueueManager, one store or platform call per step, each free to
\* fail, between engine calls that make, fill and close the queue.
\* (interaction_create dispatches no /bump command to it.)

BumpUsers == {1, 2}
\* the ids the platform gives to queue messages, in this order
BumpMessageIds == {1, 2, 3}

\* the engine calls between two bumps
BumpJoin(u) ==
    /\ lock = None
    /\ Join(Q1, u, 0)
    /\ UNCHANGED <<history_vars, handler_vars, platform_vars>>

BumpLeave(u) ==
    /\ lock = None
    /\ Leave(Q1, u, 0)
    /\ UNCHANGED <<history_vars, handler_vars, platform_vars>>

BumpCreate ==
    /\ lock = None
    /\ message_id[Q1] = None
    /\ next_message \in BumpMessageIds
    /\ Create(Q1, as_i64(next_message), 0)
    /\ next_message' = next_message + 1
    /\ UNCHANGED <<history_vars, lock, proc, store_failed, platform_vars>>

BumpClose ==
    /\ lock = None
    /\ Close(Q1, 0)
    /\ UNCHANGED <<history_vars, handler_vars, platform_vars>>

\* handle_bump_command is entered with the QueueManager
BumpAcquire(p) ==
    /\ At(p, "idle")
    /\ can_lock(lock)
    /\ lock' = Some(p)
    /\ proc' = [proc EXCEPT ![p] = [Idle EXCEPT !.kind = "bump", !.pc = "bump_exists",
                                                 !.at_lock = Some(StoreNow)]]
    /\ UNCHANGED <<store_vars, history_vars, platform_vars, next_message, store_failed>>

\* if let Ok(false) = queue_exists(..) { return }
BumpExists(p) ==
    /\ At(p, "bump_exists")
    /\ \E f \in Failures :
          Set(p, [proc[p] EXCEPT
                     !.exists = queue_exists(message_id[Q1], queue[Q1], f),
                     !.pc = IF queue_exists(message_id[Q1], queue[Q1], f) = "false"
                            THEN "release" ELSE "bump_get_users"], f)
    /\ UNCHANGED <<store_vars, history_vars, platform_vars, lock, next_message>>

\* match get_users(..) { Ok(users) => users, Err(e) => return }
BumpGetUsers(p) ==
    /\ At(p, "bump_get_users")
    /\ \E f \in Failures :
          Set(p, IF f = 1 THEN [proc[p] EXCEPT !.pc = "release"]
                 ELSE [proc[p] EXCEPT !.read = get_users(queue[Q1]),
                                      !.pc = "bump_get_message"], f)
    /\ UNCHANGED <<store_vars, history_vars, platform_vars, lock, next_message>>

\* match get_message_id(..) { Ok(Some(id)) => id, _ => return }
BumpGetMessage(p) ==
    /\ At(p, "bump_get_message")
    /\ \E f \in Failures :
          Set(p, IF f = 0 /\ message_id[Q1] # None
                 THEN [proc[p] EXCEPT !.message = as_u64(message_id[Q1][1]),
                                      !.pc = "bump_send"]
                 ELSE [proc[p] EXCEPT !.pc = "release"], f)
    /\ UNCHANGED <<store_vars, history_vars, platform_vars, lock, next_message>>

\* let _ = delete_message(old_msg_id as u64); send_message(..), Err => return;
\* if let Err(e) = create_queue(.., new_msg.id.get() as i64) { eprintln!(..) }
BumpSend(p) ==
    /\ At(p, "bump_send")
    /\ \/ \* send_message failed
          /\ Set(p, [proc[p] EXCEPT !.pc = "release", !.bind = "no_id"], 0)
          /\ UNCHANGED <<message_id, next_message>>
       \/ /\ next_message \in BumpMessageIds
          /\ next_message' = next_message + 1
          /\ \E f \in Failures :
                /\ message_id' = [message_id EXCEPT ![Q1] =
                       create_queue(message_id[Q1], as_i64(next_message), f).message_id]
                /\ Set(p, [proc[p] EXCEPT
                              !.pc = "release",
                              !.bind = IF f = 1 THEN "create_err" ELSE "ok"], f)
    /\ UNCHANGED <<queue, notification_message_id, last_action, result, history_vars,
                   platform_vars, lock>>

BumpNext ==
    \/ \E u \in BumpUsers : BumpJoin(u)
    \/ \E u \in BumpUsers : BumpLeave(u)
    \/ BumpCreate
    \/ BumpClose
    \/ \E p \in Procs : BumpAcquire(p)
    \/ \E p \in Procs : BumpExists(p)
    \/ \E p \in Procs : BumpGetUsers(p)
    \/ \E p \in Procs : BumpGetMessage(p)
    \/ \E p \in Procs : BumpSend(p)
    \/ \E p \in Procs : Release(p)

SpecBump == Init /\ [][BumpNext]_vars

\* task p has run handle_bump_command on a queue that existed, to its end
Bumped(p) ==
    /\ proc[p].kind = "bump" /\ proc[p].pc = "release"
    /\ proc[p].at_lock[1].message_id # None

----------------------------------------------------------------------------
\* The ids of the messages (SpecIds): create_queue, is_active_queue and
\* close_queue on one queue, with every id of the unsigned width, so also
\* those above the sign bit that `as i64` makes negative.

U64 == 0..(Modulus - 1)

IdsNext ==
    \/ \E m \in U64, f \in 0..1 : StoreCreate(Q1, m, f)
    \/ \E m \in U64, f \in 0..1 : IsActive(Q1, m, f)
    \/ \E f \in 0..1 : StoreClose(Q1, f)

SpecIds == Init /\ [][IdsNext]_vars

\* C39: the ids survive the conversions: after create_queue(m as i64) has
\* stored the binding for an unsigned m, is_active_queue answers true for m
\* and false for every other unsigned id, also for m at or above the sign
\* bit, and so does an is_active_queue call that follows.
C39_IdRoundTrip ==
    /\ (call.op = "create" /\ result.kind = "Ok") =>
          \A m \in U64 :
              is_active_queue(message_id[call.q], m, 0) <=> (m = call.message)
    /\ (call.op = "is_active_queue" /\ result.kind = "true") =>
          \A m \in U64 :
              is_active_queue(message_id[call.q], m, 0) <=> (m = call.message)

\* the binding of the greatest unsigned id, stored as -1
C39_Witness ==
    /\ call.op = "is_active_queue" /\ call.message = Modulus - 1
    /\ call.prev = "create" /\ result.kind = "true"
    /\ message_id[Q1] = Some(-1)

----------------------------------------------------------------------------
\* Close, the binding and Exists (SpecStore)

AllAbsent(q) ==
    queue[q] = <<>> /\ message_id[q] = None /\ notification_message_id[q] = None

\* IsBoundTo(g, c, m) and Exists(g, c) as the engine answers them when the read succeeds
IsBoundTo(q, m) == is_active_queue(message_id[q], m, 0)
ExistsQueue(q) == queue_exists(message_id[q], queue[q], 0) = "true"

\* C11: a Close that the store does not fail succeeds whether or not the
\* queue exists, so also the second of two in a row, and leaves the
\* membership list, the binding and the notification binding all absent.
C11_CloseIdempotent ==
    (call.op = "close" /\ call.fail = 0) => (result.kind = "Ok" /\ AllAbsent(call.q))

\* a second successful Close right after a successful Close
C11_Witness ==
    /\ call.op = "close" /\ call.fail = 0 /\ result.kind = "Ok"
    /\ call.prev = "close" /\ call.prev_kind = "Ok"
    /\ AllAbsent(Q1)

\* C12: a Close deletes the three records in one step: it leaves either
\* all three absent or the store as it was, also when it fails.
C12_CloseAtomic ==
    [][\A q \in Queues :
           (call'.op = "close" /\ call'.q = q) =>
               \/ AllAbsent(q)'
               \/ UNCHANGED <<queue, message_id, notification_message_id>>]_vars

\* a failed Close on a queue that has all three records
C12_Witness ==
    /\ call.op = "close" /\ call.fail = 1 /\ result.kind = "Err"
    /\ queue[Q1] # <<>> /\ message_id[Q1] # None /\ notification_message_id[Q1] # None

\* C13: after a Close followed by a Create with a binding other than the
\* old one, the queue is not bound to the old message and is bound to the
\* new one.
C13_RebindAfterClose ==
    \A old \in StoreMessageIds, new \in StoreMessageIds :
        (/\ call.op = "create" /\ call.fail = 0 /\ call.message = new
         /\ call.prev = "close" /\ call.prev_kind = "Ok"
         /\ closed_binding[call.q] = Some(old)
         /\ old # new)
            => (~IsBoundTo(call.q, old) /\ IsBoundTo(call.q, new))

\* Close of a queue bound to 1, then Create with the id above the sign bit
C13_Witness ==
    /\ call.op = "create" /\ call.fail = 0 /\ call.message = Modulus - 1
    /\ call.prev = "close" /\ call.prev_kind = "Ok"
    /\ closed_binding[Q1] = Some(1)
    /\ result.kind = "Ok"

\* C14: IsBoundTo(g, c, m) answers true exactly when the binding is present
\* and is the one Create stores for m; it answers false when there is no
\* binding and when the read of the store fails.
C14_IsBoundTo ==
    call.op = "is_active_queue" =>
        /\ result.kind = "true" <=>
               (call.fail = 0 /\ message_id[call.q] = Some(as_i64(call.message)))
        /\ (message_id[call.q] = None \/ call.fail = 1) => result.kind = "false"

\* the answer true for the id above the sign bit
C14_Witness ==
    /\ call.op = "is_active_queue" /\ call.message = Modulus - 1
    /\ result.kind = "true"

\* C15: Exists(g, c) answers true exactly when the binding is present,
\* whatever the membership list holds.
C15_Exists ==
    (call.op = "queue_exists" /\ call.fail = 0) =>
        (result.kind = "true" <=> message_id[call.q] # None)

\* the answer false for a queue that has members but no binding
C15_Witness ==
    /\ call.op = "queue_exists" /\ call.fail = 0 /\ result.kind = "false"
    /\ queue[Q1] # <<>>

----------------------------------------------------------------------------
\* The lock and the life of a queue (SpecHandlers)

\* task p is between taking the lock and dropping it
Active(p) == proc[p].pc \notin {"idle", "waiting"}

\* the join_queue of a Join event has returned Success to handle_join_queue
JoinReturned(p) == proc[p].kind = "join" /\ proc[p].outcome = "Success"

\* C16: every engine call of an event is made by the task that holds the one
\* lock, from the stale-message check to the last store access of the
\* handler, so at most one task is at a store call and the store calls of
\* two events never interleave.
C16_UnderLock ==
    /\ \A p \in Procs : Active(p) => lock = Some(p)
    /\ \A p \in Procs, o \in Procs : (Active(p) /\ Active(o)) => p = o

\* a Join between its append and its re-read while another event waits for the lock
C16_Witness ==
    \E p \in Procs, o \in Procs :
        /\ p # o
        /\ proc[p].kind = "join" /\ proc[p].pc = "join_get_users"
        /\ proc[o].pc = "waiting"

\* C17: no update is lost under the lock: the list a Join returns is the
\* list stored when its task took the lock followed by the joiner, it is
\* the stored list, and no user is in the stored list twice.
C17_NoLostUpdate ==
    /\ NoDuplicates(queue[Q1])
    /\ \A p \in Procs :
          JoinReturned(p) =>
              /\ proc[p].read = Append(proc[p].before, proc[p].user)
              /\ queue[Q1] = proc[p].read

\* the third Join in a row has returned while another event waits for the lock
C17_Witness ==
    \E p \in Procs, o \in Procs :
        /\ p # o
        /\ proc[p].kind = "join" /\ proc[p].outcome = "Success"
        /\ Len(proc[p].before) = 3 /\ Len(queue[Q1]) = 4
        /\ proc[o].pc = "waiting"

\* C18: when the Leave of an event has removed the last member and no store
\* call of the event failed, then at the end of the handler the membership
\* list, the binding and the notification binding are absent and Exists
\* is false.
C18_LastLeaveDestroys ==
    \A p \in Procs :
        (/\ proc[p].pc = "release" /\ proc[p].kind = "leave"
         /\ proc[p].outcome = "Success" /\ proc[p].read = <<>>
         /\ ~proc[p].failed)
            => (AllAbsent(Q1) /\ ~ExistsQueue(Q1))

\* the handler of a Leave that removed the last member is at its end
C18_Witness ==
    \E p \in Procs :
        /\ proc[p].pc = "release" /\ proc[p].kind = "leave"
        /\ proc[p].outcome = "Success" /\ proc[p].read = <<>>
        /\ ~proc[p].failed
        /\ last_action = Some(<<proc[p].user, "left">>)

\* C19: while the lock is free and no store call has failed, the binding of
\* the queue is present exactly when its membership list is not empty.
C19_BindingIffMembers ==
    (lock = None /\ ~store_failed) => (message_id[Q1] # None <=> queue[Q1] # <<>>)

\* the queue was created, destroyed and created again, and has two members
C19_Witness ==
    /\ lock = None /\ ~store_failed
    /\ message_id[Q1] = Some(2) /\ Len(queue[Q1]) = 2

\* C20: when, after the Join of the creator succeeded, the message id is
\* not obtained or Create fails, the handler calls Close, and if that Close
\* succeeds no membership list is left without a binding.
C20_CreationCleansUp ==
    \A p \in Procs :
        (/\ proc[p].pc = "release" /\ proc[p].kind \in {"standby", "open"}
         /\ proc[p].outcome = "Success"
         /\ proc[p].bind \in {"no_id", "create_err"})
            => /\ proc[p].cleanup # "none"
               /\ proc[p].cleanup = "Ok" => ~(queue[Q1] # <<>> /\ message_id[Q1] = None)

\* Create failed after the Join of /standby, and the Close that followed succeeded
C20_Witness ==
    \E p \in Procs :
        /\ proc[p].pc = "release" /\ proc[p].kind = "standby"
        /\ proc[p].outcome = "Success" /\ proc[p].bind = "create_err"
        /\ proc[p].cleanup = "Ok"
        /\ queue[Q1] = <<>>

----------------------------------------------------------------------------
\* C22: a Leave that succeeds returns the OneMore notification exactly when
\* the membership list has QUEUE_ALMOST_FULL (4) members after the removal,
\* and never returns a Ready notification.
C22_LeaveNotification ==
    LeaveSucceeded =>
        /\ result.notification = OneMore <=> Len(queue[Q1]) = QUEUE_ALMOST_FULL
        /\ result.notification.kind # "Ready"
        /\ result.notification \in {OneMore, NoNotification}

\* a Leave from six members to five, which returns no notification
C22_Witness ==
    /\ LeaveSucceeded /\ Len(queue[Q1]) = QUEUE_FULL
    /\ result.waitlist = <<>> /\ result.promoted_user # None
    /\ result.notification = NoNotification

\* C23: get_last_action gives None until the first Join or Leave that
\* succeeds; a Join of u that succeeds makes it "u joined", a Leave of u that
\* succeeds makes it "u left", and no other call changes it.
C23_LastAction ==
    /\ get_last_action(last_action) = None
    /\ [][
          /\ (result'.op = "join" /\ result'.kind = "Success")
                => get_last_action(last_action)' = Some(<<call'.user, "joined">>)
          /\ (result'.op = "leave" /\ result'.kind = "Success")
                => get_last_action(last_action)' = Some(<<call'.user, "left">>)
          /\ ~(result'.op \in {"join", "leave"} /\ result'.kind = "Success")
                => get_last_action(last_action)' = get_last_action(last_action)
       ]_vars

\* a Join that failed after a Leave that succeeded: the annotation is the Leave's
C23_Witness ==
    /\ call.op = "join" /\ result.kind = "Error" /\ call.user = 2
    /\ get_last_action(last_action) = Some(<<1, "left">>)

\* C27: the first Join after a Close returns the joiner alone as the active
\* set, an empty waitlist and no notification, and the stored list holds
\* the joiner only: no member from before the Close is back.
C27_JoinAfterClose ==
    (/\ call.op = "join" /\ result.kind = "Success"
     /\ call.prev = "close" /\ call.prev_kind = "Ok")
        => /\ result.users = <<call.user>>
           /\ result.waitlist = <<>>
           /\ result.notification = NoNotification
           /\ queue[call.q] = <<call.user>>

\* the Join of user 2 right after the Close of a queue that was bound
C27_Witness ==
    /\ call.op = "join" /\ result.kind = "Success" /\ call.user = 2
    /\ call.prev = "close" /\ call.prev_kind = "Ok"
    /\ closed_binding[Q1] # None

----------------------------------------------------------------------------
\* The events the handlers reject, and the order of Join and Create (SpecHandlers)

\* the task has called create_queue in this event
CreateInvoked(p) == proc[p].bind \in {"ok", "create_err"}

\* C21: a handler calls Create only after its Join has appended the first
\* participant and only when Exists has answered false in the same event.
C21_CreateAfterJoin ==
    \A p \in Procs :
        CreateInvoked(p) => (proc[p].outcome = "Success" /\ proc[p].exists = "false")

\* C26: a /standby that takes the lock while the queue exists is rejected:
\* at the end of its handler the membership list, the binding and the
\* notification binding are as they were.
C26_StandbyRejected ==
    \A p \in Procs :
        (proc[p].kind = "standby" /\ proc[p].at_lock # None /\ proc[p].pc = "release")
            => /\ queue[Q1] = proc[p].at_lock[1].queue
               /\ message_id[Q1] = proc[p].at_lock[1].message_id
               /\ notification_message_id[Q1] = proc[p].at_lock[1].notification_message_id

\* C30: a join, leave or close click on a message that is not the binding
\* of the queue (superseded message, or no queue) is dropped at the check:
\* the handler is not entered and the membership list, both bindings and
\* the annotation stay as they were when the lock was taken.
C30_StaleClickDropped ==
    \A p \in Procs :
        (proc[p].kind \in {"join", "leave", "close"} /\ proc[p].at_lock # None)
            => /\ proc[p].pc \in {"is_active", "release"}
               /\ StoreNow = proc[p].at_lock[1]

\* the leave click of a member on message 1 was dropped while the queue is bound to message 2
C30_Witness ==
    \E p \in Procs :
        /\ proc[p].kind = "leave" /\ proc[p].at_lock # None /\ proc[p].pc = "release"
        /\ proc[p].message = 1 /\ message_id[Q1] = Some(2)
        /\ proc[p].user \in Members(queue[Q1])

----------------------------------------------------------------------------
\* The milestone notification (SpecNotify)

\* at most one notification message is live, and the notification binding
\* is present exactly when one is live and names it
OneLiveNotification ==
    /\ Cardinality(live_notifications) <= 1
    /\ \A m \in HandlerNotificationIds :
          m \in live_notifications <=> notification_message_id[Q1] = Some(as_i64(m))

\* C25 as stated: a Join or Leave event that succeeds retracts the recorded
\* notification (message deleted, binding cleared) before it posts a new
\* one, so at most one notification message is live and the binding names it.
C25_OneLiveNotification == OneLiveNotification

\* C25, amended: the same, as long as no store call and no delete_message
\* of a notification has failed.
C25_OneLiveNotificationNoFailure == NoFailure => OneLiveNotification

\* the Leave event of one of four members has retracted the notification
\* that the fourth Join posted
C25_Witness ==
    /\ NoFailure
    /\ live_notifications = {}
    /\ notification_message_id[Q1] = None
    /\ \E p \in Procs :
          /\ proc[p].kind = "leave" /\ proc[p].pc = "update_message"
          /\ Len(users_of(p)) = 3

----------------------------------------------------------------------------
\* Calls that fail (SpecStore)

\* C33: a Join that returns Error has not appended the user and a Leave that
\* returns Error has not removed the user: the stored list is as it was
\* before the call.
C33_ErrorLeavesMembership ==
    [][
        (call'.op \in {"join", "leave"} /\ result'.kind = "Error") => queue' = queue
    ]_vars

\* C34: a Join or Leave that returns AlreadyInQueue, NotInQueue or Error
\* leaves the last-action annotation as it was; the annotation changes only
\* in a Join or Leave that returns Success.
C34_OnlySuccessAnnotates ==
    [][
        /\ (call'.op \in {"join", "leave"}
               /\ result'.kind \in {"AlreadyInQueue", "NotInQueue", "Error"})
              => last_action' = last_action
        /\ last_action' # last_action
              => (call'.op \in {"join", "leave"} /\ result'.kind = "Success")
    ]_vars

\* the Join of user 2 returned Error from its last read, after add_user, and
\* the annotation is still that of user 1
C34_Witness ==
    /\ call.op = "join" /\ call.user = 2 /\ call.fail = 3 /\ result.kind = "Error"
    /\ queue[Q1] = <<1, 2>>
    /\ last_action = Some(<<1, "joined">>)

----------------------------------------------------------------------------
\* The open button (SpecHandlers)

\* C35: an open click that takes the lock while the queue exists, or whose
\* existence check fails, goes no further than the check: the membership
\* list, the binding and the notification binding stay as they were when
\* the lock was taken, and the opener is not added.
C35_OpenRejected ==
    \A p \in Procs :
        (proc[p].kind = "open"
            /\ (proc[p].at_lock[1].message_id # None \/ proc[p].exists = "Err"))
            => /\ proc[p].pc \in {"open_exists", "release"}
               /\ proc[p].bind = "none" /\ proc[p].outcome = "none"
               /\ queue[Q1] = proc[p].at_lock[1].queue
               /\ message_id[Q1] = proc[p].at_lock[1].message_id
               /\ notification_message_id[Q1] = proc[p].at_lock[1].notification_message_id

\* the open click of user 2 on a queue that does not exist has ended at a
\* failed existence check
C35_Witness ==
    \E p \in Procs :
        /\ proc[p].kind = "open" /\ proc[p].user = 2 /\ proc[p].pc = "release"
        /\ proc[p].exists = "Err"
        /\ proc[p].at_lock[1].message_id = None
        /\ queue[Q1] = <<>> /\ message_id[Q1] = None

\* task p runs the open click of a user on a queue none of whose records
\* was there when it took the lock, and create_queue has stored the binding
OpenedAbsent(p) ==
    /\ proc[p].kind = "open" /\ proc[p].pc = "release" /\ proc[p].bind = "ok"
    /\ proc[p].at_lock[1].queue = <<>>
    /\ proc[p].at_lock[1].message_id = None
    /\ proc[p].at_lock[1].notification_message_id = None

\* the open handler of task p ended with the queue bound to the message it
\* sent and the opener as the only member
OpenedWith(p) ==
    /\ message_id[Q1] = Some(as_i64(next_message - 1))
    /\ is_active_queue(message_id[Q1], next_message - 1, 0)
    /\ queue[Q1] = <<proc[p].user>>

C36_WitnessSuccess ==
    \E p \in Procs : OpenedAbsent(p) /\ proc[p].outcome = "Success" /\ OpenedWith(p)

----------------------------------------------------------------------------
\* C38: a Leave that succeeds and reports a promoted user returns an active
\* set of exactly QUEUE_FULL (5) members whose last entry is the promoted
\* user, and no notification: a promotion and OneMore never come together.
C38_PromotionResult ==
    (LeaveSucceeded /\ result.promoted_user # None) =>
        /\ Len(result.users) = QUEUE_FULL
        /\ result.promoted_user = Some(result.users[Len(result.users)])
        /\ result.notification = NoNotification

\* user 1 left a queue of six and user 6 was promoted
C38_Witness ==
    /\ LeaveSucceeded
    /\ result.promoted_user = Some(6)
    /\ result.users = <<2, 3, 4, 5, 6>> /\ result.waitlist = <<>>

====
